---------------------------- MODULE Spec2Model ----------------------------
(***************************************************************************)
(* Rehuel, src/irk.cpp: the Runge-Kutta tableau catalogue                  *)
(* (get_coefficients, verify_solver_coeffs, method_to_name,                *)
(* name_to_method) and the step-size controller (get_better_time_step).    *)
(*                                                                         *)
(* A C++ double is modelled by the real number it approximates, held       *)
(* exactly as (n + s*sqrt(k)) / d with integers n, s, k, d (d > 0): every  *)
(* coefficient of the catalogue is such a number, and the rounding of a    *)
(* double (about 1e-16) is far below the 1e-5 the row-sum check compares   *)
(* against.                                                                *)
(***************************************************************************)
EXTENDS Integers, Sequences, FiniteSets, TLC

VARIABLES
    rk_method_to_string,  \* irk::rk_method_to_string  (identifier -> name)
    rk_string_to_method,  \* irk::rk_string_to_method  (name -> identifier)
    sc,                   \* the solver_coeffs last returned by get_coefficients
    cerr,                 \* what the most recent call wrote to std::cerr
    ret                   \* the most recent call: operation, arguments, result

vars == <<rk_method_to_string, rk_string_to_method, sc, cerr, ret>>

-----------------------------------------------------------------------------
(* Bounds of the model.                                                    *)

\* get_coefficients / method_to_name are tried with the uncatalogued
\* identifiers 0 .. MaxUnknownId.
MaxUnknownId == 1

\* old_err ranges over tol * 2^e, -MaxErrExp <= e <= MaxErrExp.
MaxErrExp == 3

-----------------------------------------------------------------------------
(* Arithmetic on doubles.                                                  *)

Abs(x) == IF x < 0 THEN -x ELSE x

RECURSIVE GCD(_, _)
GCD(a, b) == IF b = 0 THEN a ELSE GCD(b, a % b)

\* (n + s*sqrt(k)) / d in lowest terms, d > 0.
Num(n, s, k, d) ==
    LET g == GCD(GCD(Abs(n), Abs(s)), d)
    IN  [n |-> n \div g, s |-> s \div g, k |-> IF s = 0 THEN 0 ELSE k,
         d |-> d \div g]

\* The literal or quotient n/d, e.g. 5.0/12.0 is R(5, 12) and 0.75 is R(3, 4).
R(n, d) == IF d < 0 THEN Num(-n, 0, 0, -d) ELSE Num(n, 0, 0, d)

I(n) == R(n, 1)

\* sqrt(k) for a square-free k.
sqrt(k) == [n |-> 0, s |-> 1, k |-> k, d |-> 1]

Add(x, y) ==
    LET l == (x.d \div GCD(x.d, y.d)) * y.d
        p == l \div x.d
        q == l \div y.d
    IN  Num(x.n * p + y.n * q, x.s * p + y.s * q,
            IF x.s # 0 THEN x.k ELSE y.k, l)

Neg(x) == [x EXCEPT !.n = -x.n, !.s = -x.s]

Sub(x, y) == Add(x, Neg(y))

\* Both operands lie in the same field Q(sqrt(k)).
Mul(x, y) ==
    LET k == IF x.s # 0 THEN x.k ELSE y.k
    IN  Num(x.n * y.n + x.s * y.s * k, x.n * y.s + x.s * y.n, k, x.d * y.d)

\* x / y for a rational y # 0.
Div(x, y) == Mul(x, R(y.d, y.n))

\* x < y for rationals.
Less(x, y) == x.n * y.d < y.n * x.d

Leq(x, y) == x.n * y.d <= y.n * x.d

\* std::min
Min(x, y) == IF Less(y, x) THEN y ELSE x

IntMin(a, b) == IF b < a THEN b ELSE a

\* pow(x, e) for a double e holding an integer value.
RECURSIVE pow(_, _)
pow(x, e) ==
    IF e = 0 THEN I(1)
    ELSE IF e < 0 THEN Div(I(1), pow(x, -e))
    ELSE Mul(x, pow(x, e - 1))

\* floor(sqrt(n)) by bisection on lo <= root < hi.
RECURSIVE ISqrt(_, _, _)
ISqrt(n, lo, hi) ==
    IF hi - lo <= 1 THEN lo
    ELSE LET mid == (lo + hi) \div 2
         IN  IF mid * mid <= n THEN ISqrt(n, mid, hi) ELSE ISqrt(n, lo, mid)

\* 1 / the tolerance of the row-sum check.
RowSumTolInv == 100000

\* Digits kept of sqrt(k) when a surd has to be compared with the tolerance.
SqrtScale == 10000

\* std::fabs(x) > 1e-5.  Exact for a rational x; for a surd, sqrt(k) is taken
\* to four decimals.
ExceedsTol(x) ==
    IF x.s = 0
    THEN Abs(x.n) > x.d \div RowSumTolInv
    ELSE LET r == ISqrt(x.k * SqrtScale * SqrtScale, 0, 46340)
         IN  Abs(x.n * SqrtScale + x.s * r) * (RowSumTolInv \div SqrtScale)
                 > x.d

-----------------------------------------------------------------------------
(* Matrices and vectors (arma::mat, arma::vec): a matrix is the sequence   *)
(* of its rows, indices are 0-based as in the source.                      *)

n_rows(M) == Len(M)

n_cols(M) == IF Len(M) = 0 THEN 0 ELSE Len(M[1])

size(v) == Len(v)

At(M, i, j) == M[i + 1][j + 1]

\* A.zeros(n, n) followed by the assignments A(i,j) = v of `entries`.
ZerosThen(n, entries) ==
    [i \in 1..n |-> [j \in 1..n |->
        IF \E e \in entries : e[1] = i - 1 /\ e[2] = j - 1
        THEN (CHOOSE e \in entries : e[1] = i - 1 /\ e[2] = j - 1)[3]
        ELSE I(0)]]


-----------------------------------------------------------------------------
(* The catalogue: what each case of the switch of get_coefficients assigns *)
(* to sc.  A field a case does not assign is absent from its record.       *)

one_third == R(1, 3)
one_six == R(1, 6)
sqrt3 == sqrt(3)
sqrt5 == sqrt(5)
sqrt6 == sqrt(6)
sqrt15 == sqrt(15)

case_EXPLICIT_EULER ==
    [A |-> << <<I(0)>> >>, b |-> <<I(1)>>, c |-> <<I(0)>>,
     order |-> 1, order2 |-> 0]

case_RUNGE_KUTTA_4 ==
    [A |-> << <<I(0),    I(0),    I(0), I(0)>>,
              <<R(1, 2), I(0),    I(0), I(0)>>,
              <<I(0),    R(1, 2), I(0), I(0)>>,
              <<I(0),    I(0),    I(1), I(0)>> >>,
     b |-> <<one_six, one_third, one_third, one_six>>,
     c |-> <<I(0), R(1, 2), R(1, 2), I(1)>>,
     order |-> 4, order2 |-> 0]

case_BOGACKI_SHAMPINE_32 ==
    [A |-> << <<I(0),    I(0),    I(0),    I(0)>>,
              <<R(1, 2), I(0),    I(0),    I(0)>>,
              <<I(0),    R(3, 4), I(0),    I(0)>>,
              <<R(2, 9), R(1, 3), R(4, 9), I(0)>> >>,
     b  |-> <<R(2, 9), R(1, 3), R(4, 9), I(0)>>,
     b2 |-> <<R(7, 24), R(1, 4), R(1, 3), R(1, 8)>>,
     c  |-> <<I(0), R(1, 2), R(3, 4), I(1)>>,
     FSAL |-> TRUE, order |-> 3, order2 |-> 2]

case_CASH_KARP_54 ==
    [A |-> ZerosThen(6, {
              <<1, 0, R(1, 5)>>, <<2, 0, R(3, 40)>>, <<3, 0, R(3, 10)>>,
              <<4, 0, R(-11, 54)>>, <<5, 0, R(1631, 55296)>>,
              <<2, 1, R(9, 40)>>, <<3, 1, R(-9, 10)>>, <<4, 1, R(5, 2)>>,
              <<5, 1, R(175, 512)>>,
              <<3, 2, R(6, 5)>>, <<4, 2, R(-70, 27)>>,
              <<5, 2, R(575, 13824)>>,
              <<4, 3, R(35, 27)>>, <<5, 3, R(44275, 110592)>>,
              <<5, 4, R(253, 4096)>> }),
     b  |-> <<R(37, 378), I(0), R(250, 621), R(125, 594), I(0),
              R(512, 1771)>>,
     b2 |-> <<R(2825, 27648), I(0), R(18575, 48384), R(13525, 55296),
              R(277, 14336), R(1, 4)>>,
     c  |-> <<I(0), R(1, 5), R(3, 10), R(3, 5), I(1), R(7, 8)>>,
     order |-> 5, order2 |-> 4]

case_DORMAND_PRINCE_54 ==
    [A |-> ZerosThen(7, {
              <<1, 0, R(1, 5)>>, <<2, 0, R(3, 40)>>, <<3, 0, R(44, 45)>>,
              <<4, 0, R(19372, 6561)>>, <<5, 0, R(9017, 3168)>>,
              <<6, 0, R(35, 384)>>,
              <<2, 1, R(9, 40)>>, <<3, 1, R(-56, 15)>>,
              <<4, 1, R(-25360, 2187)>>, <<5, 1, R(-355, 33)>>,
              <<6, 1, I(0)>>,
              <<3, 2, R(32, 9)>>, <<4, 2, R(64448, 6561)>>,
              <<5, 2, R(46732, 5247)>>, <<6, 2, R(500, 1113)>>,
              <<4, 3, R(-212, 729)>>, <<5, 3, R(49, 176)>>,
              <<6, 3, R(125, 192)>>,
              <<5, 4, R(-5103, 18656)>>, <<6, 4, R(-2187, 6784)>>,
              <<6, 5, R(11, 84)>> }),
     c  |-> <<I(0), R(1, 5), R(3, 10), R(4, 5), R(8, 9), I(1), I(1)>>,
     b  |-> <<R(35, 384), I(0), R(500, 1113), R(125, 192), R(-2187, 6784),
              R(11, 84), I(0)>>,
     b2 |-> <<R(5179, 57600), I(0), R(7571, 16695), R(393, 640),
              R(-92097, 339200), R(187, 2100), R(1, 40)>>,
     order |-> 5, order2 |-> 4, FSAL |-> TRUE]

\* This case assigns A(i,j) with i < j and never assigns sc.c.
case_FEHLBERG_54 ==
    [A |-> ZerosThen(6, {
              <<0, 1, R(1, 4)>>, <<0, 2, R(3, 32)>>, <<0, 3, R(1932, 2197)>>,
              <<0, 4, R(439, 126)>>, <<0, 5, R(-8, 27)>>,
              <<1, 2, R(9, 32)>>, <<1, 3, R(-7200, 2197)>>, <<1, 4, I(-8)>>,
              <<1, 5, I(2)>>,
              <<2, 3, R(7296, 2197)>>, <<2, 4, R(3680, 513)>>,
              <<2, 5, R(-3544, 2565)>>,
              <<3, 4, R(-845, 4104)>>, <<3, 5, R(1859, 4104)>>,
              <<4, 5, R(-11, 40)>> }),
     b  |-> <<R(16, 135), I(0), R(6656, 12825), R(28561, 56430), R(-9, 50),
              R(2, 55)>>,
     b2 |-> <<R(25, 216), I(0), R(1408, 2565), R(2197, 4104), R(-1, 5),
              I(0)>>,
     order |-> 5, order2 |-> 4]

case_IMPLICIT_EULER ==
    [A |-> << <<I(1)>> >>, b |-> <<I(1)>>, c |-> <<I(1)>>,
     order |-> 1, order2 |-> 0]

case_IMPLICIT_MIDPOINT ==
    [A |-> << <<R(1, 2)>> >>, b |-> <<I(1)>>, c |-> <<R(1, 2)>>,
     order |-> 2, order2 |-> 0]

case_LOBATTO_IIIA_21 ==
    [A |-> << <<I(0),    I(0)>>,
              <<R(1, 2), R(1, 2)>> >>,
     b  |-> <<R(1, 2), R(1, 2)>>,
     c  |-> <<I(0), I(1)>>,
     b2 |-> <<R(1, 4), R(3, 4)>>,
     order |-> 2, order2 |-> 1]

case_LOBATTO_IIIC_21 ==
    [A |-> << <<R(1, 2), R(-1, 2)>>,
              <<R(1, 2), R(1, 2)>> >>,
     b  |-> <<R(1, 2), R(1, 2)>>,
     b2 |-> <<R(1, 3), R(2, 3)>>,
     c  |-> <<I(0), I(1)>>,
     order |-> 2, order2 |-> 1]

case_RADAU_IA_32 ==
    [A |-> << <<R(1, 4), R(-1, 4)>>,
              <<R(1, 4), R(5, 12)>> >>,
     c |-> <<I(0), R(2, 3)>>,
     b |-> <<R(1, 4), R(3, 4)>>,
     order |-> 3, order2 |-> 0]

case_RADAU_IIA_32 ==
    [A |-> << <<R(5, 12), R(-1, 12)>>,
              <<R(3, 4),  R(1, 4)>> >>,
     c |-> <<R(1, 3), I(1)>>,
     b |-> <<R(3, 4), R(1, 4)>>,
     order |-> 3, order2 |-> 0]

case_LOBATTO_IIIA_43 ==
    [A |-> << <<I(0),     I(0),    I(0)>>,
              <<R(5, 24), R(1, 3), R(-1, 24)>>,
              <<R(1, 6),  R(2, 3), R(1, 6)>> >>,
     c  |-> <<I(0), R(1, 2), I(1)>>,
     b  |-> <<R(1, 6), R(2, 3), R(1, 6)>>,
     b2 |-> <<R(-1, 2), I(2), R(-1, 2)>>,
     order |-> 4, order2 |-> 3, FSAL |-> TRUE]

case_LOBATTO_IIIC_43 ==
    [A |-> << <<R(1, 6), R(-1, 3), R(1, 6)>>,
              <<R(1, 6), R(5, 12), R(-1, 12)>>,
              <<R(1, 6), R(2, 3),  R(1, 6)>> >>,
     b  |-> <<R(1, 6), R(2, 3), R(1, 6)>>,
     b2 |-> <<R(-1, 2), I(2), R(-1, 2)>>,
     c  |-> <<I(0), R(1, 2), I(1)>>,
     order |-> 4, order2 |-> 3]

\* GAUSS_LEGENDRE_42 with the sign of sqrt3/6 in A(0,1) slipped.
case_GAUSS_LEGENDRE_42_sign ==
    [A |-> << <<R(1, 4), Add(R(1, 4), Div(sqrt3, I(6)))>>,
              <<Add(R(1, 4), Div(sqrt3, I(6))), R(1, 4)>> >>,
     c  |-> <<Sub(R(1, 2), Div(sqrt3, I(6))), Add(R(1, 2), Div(sqrt3, I(6)))>>,
     b  |-> <<R(1, 2), R(1, 2)>>,
     b2 |-> <<Add(R(1, 2), Mul(R(1, 2), sqrt3)),
              Sub(R(1, 2), Mul(R(1, 2), sqrt3))>>,
     order |-> 4, order2 |-> 2]

case_GAUSS_LEGENDRE_42 ==
    [A |-> << <<R(1, 4), Sub(R(1, 4), Div(sqrt3, I(6)))>>,
              <<Add(R(1, 4), Div(sqrt3, I(6))), R(1, 4)>> >>,
     c  |-> <<Sub(R(1, 2), Div(sqrt3, I(6))), Add(R(1, 2), Div(sqrt3, I(6)))>>,
     b  |-> <<R(1, 2), R(1, 2)>>,
     b2 |-> <<Add(R(1, 2), Mul(R(1, 2), sqrt3)),
              Sub(R(1, 2), Mul(R(1, 2), sqrt3))>>,
     order |-> 4, order2 |-> 2]

case_RADAU_IA_54 ==
    [A |-> << <<R(1, 9),
                Div(Sub(I(-1), sqrt6), I(18)),
                Div(Add(I(-1), sqrt6), I(18))>>,
              <<R(1, 9),
                Div(Add(I(88), Mul(I(7), sqrt6)), I(360)),
                Div(Sub(I(88), Mul(I(43), sqrt6)), I(360))>>,
              <<R(1, 9),
                Div(Add(I(88), Mul(I(43), sqrt6)), I(360)),
                Div(Sub(I(88), Mul(I(7), sqrt6)), I(360))>> >>,
     c |-> <<I(0), Div(Sub(I(6), sqrt6), I(10)), Div(Add(I(6), sqrt6), I(10))>>,
     b |-> <<R(1, 9), Div(Add(I(16), sqrt6), I(36)),
             Div(Sub(I(16), sqrt6), I(36))>>,
     order |-> 5, order2 |-> 0]

\* RADAU_IIA_54 with the assignment of sc.b2 left in and order2 still 0.
case_RADAU_IIA_54_b2 ==
    [A |-> << <<Div(Sub(I(88), Mul(I(7), sqrt6)), I(360)),
                Div(Sub(I(296), Mul(I(169), sqrt6)), I(1800)),
                Div(Add(I(-2), Mul(I(3), sqrt6)), I(225))>>,
              <<Div(Add(I(296), Mul(I(169), sqrt6)), I(1800)),
                Div(Add(I(88), Mul(I(7), sqrt6)), I(360)),
                Div(Sub(I(-2), Mul(I(3), sqrt6)), I(225))>>,
              <<Div(Sub(I(16), sqrt6), I(36)),
                Div(Add(I(16), sqrt6), I(36)),
                R(1, 9)>> >>,
     c |-> <<Div(Sub(I(4), sqrt6), I(10)), Div(Add(I(4), sqrt6), I(10)), I(1)>>,
     b |-> <<Div(Sub(I(16), sqrt6), I(36)), Div(Add(I(16), sqrt6), I(36)),
             R(1, 9)>>,
     b2 |-> <<Div(Sub(I(16), sqrt6), I(36)), Div(Add(I(16), sqrt6), I(36)),
              R(1, 9)>>,
     order |-> 5, order2 |-> 0]

case_RADAU_IIA_54 ==
    [A |-> << <<Div(Sub(I(88), Mul(I(7), sqrt6)), I(360)),
                Div(Sub(I(296), Mul(I(169), sqrt6)), I(1800)),
                Div(Add(I(-2), Mul(I(3), sqrt6)), I(225))>>,
              <<Div(Add(I(296), Mul(I(169), sqrt6)), I(1800)),
                Div(Add(I(88), Mul(I(7), sqrt6)), I(360)),
                Div(Sub(I(-2), Mul(I(3), sqrt6)), I(225))>>,
              <<Div(Sub(I(16), sqrt6), I(36)),
                Div(Add(I(16), sqrt6), I(36)),
                R(1, 9)>> >>,
     c |-> <<Div(Sub(I(4), sqrt6), I(10)), Div(Add(I(4), sqrt6), I(10)), I(1)>>,
     b |-> <<Div(Sub(I(16), sqrt6), I(36)), Div(Add(I(16), sqrt6), I(36)),
             R(1, 9)>>,
     order |-> 5, order2 |-> 0]

case_GAUSS_LEGENDRE_63 ==
    [A |-> << <<R(5, 36),
                Sub(R(2, 9), Div(sqrt15, I(15))),
                Sub(R(5, 36), Div(sqrt15, I(30)))>>,
              <<Add(R(5, 36), Div(sqrt15, I(24))),
                R(2, 9),
                Sub(R(5, 36), Div(sqrt15, I(24)))>>,
              <<Add(R(5, 36), Div(sqrt15, I(30))),
                Add(R(2, 9), Div(sqrt15, I(15))),
                R(5, 36)>> >>,
     b |-> <<R(5, 18), R(4, 9), R(5, 18)>>,
     c |-> <<Sub(R(1, 2), Div(sqrt15, I(10))), R(1, 2),
             Add(R(1, 2), Div(sqrt15, I(10)))>>,
     order |-> 6, order2 |-> 0]

case_LOBATTO_IIIA_65 ==
    LET a1 == R(11, 120)
        a2 == R(25, 120)
        a3 == Div(sqrt5, I(120))
        a4 == R(1, 120)
    IN  [A |-> << <<I(0), I(0), I(0), I(0)>>,
                  <<Add(a1, a3), Sub(a2, a3), Sub(a2, Mul(I(13), a3)),
                    Add(Neg(a4), a3)>>,
                  <<Sub(a1, a3), Add(a2, Mul(I(13), a3)), Add(a2, a3),
                    Sub(Neg(a4), a3)>>,
                  <<R(1, 12), R(5, 12), R(5, 12), R(1, 12)>> >>,
         b |-> <<R(1, 12), R(5, 12), R(5, 12), R(1, 12)>>,
         c |-> <<I(0), Sub(R(1, 2), Div(sqrt5, I(10))),
                 Add(R(1, 2), Div(sqrt5, I(10))), I(1)>>,
         order |-> 6, order2 |-> 0]

case_LOBATTO_IIIC_65 ==
    LET a1 == R(1, 12)
        a2 == Div(sqrt5, I(12))
        a3 == R(1, 4)
        a4 == R(1, 6)
        a5 == Div(sqrt5, I(60))
    IN  [A |-> << <<a1, Neg(a2), a2, Neg(a1)>>,
                  <<a1, a3, Sub(a4, Mul(I(7), a5)), a5>>,
                  <<a1, Add(a4, Mul(I(7), a5)), a3, Neg(a5)>>,
                  <<a1, Mul(I(5), a1), Mul(I(5), a1), a1>> >>,
         b |-> <<a1, Mul(I(5), a1), Mul(I(5), a1), a1>>,
         c |-> <<I(0), Sub(R(1, 2), Div(sqrt5, I(10))),
                 Add(R(1, 2), Div(sqrt5, I(10))), I(1)>>,
         order |-> 6, order2 |-> 0]

-----------------------------------------------------------------------------
(* The lookup tables.  irk.hpp, which declares the enumeration and the two *)
(* tables, is not part of the sources at hand: the identifiers are taken   *)
(* to be distinct and non-zero, 0 being "no method".                       *)

rk_methods ==
    [EXPLICIT_EULER |-> 10, RUNGE_KUTTA_4 |-> 11, BOGACKI_SHAMPINE_32 |-> 12,
     CASH_KARP_54 |-> 13, DORMAND_PRINCE_54 |-> 14, FEHLBERG_54 |-> 15,
     IMPLICIT_EULER |-> 20, IMPLICIT_MIDPOINT |-> 21,
     LOBATTO_IIIA_21 |-> 22, LOBATTO_IIIC_21 |-> 23,
     RADAU_IA_32 |-> 24, RADAU_IIA_32 |-> 25,
     LOBATTO_IIIA_43 |-> 26, LOBATTO_IIIC_43 |-> 27,
     GAUSS_LEGENDRE_42 |-> 28,
     RADAU_IA_54 |-> 29, RADAU_IIA_54 |-> 30,
     GAUSS_LEGENDRE_63 |-> 31,
     LOBATTO_IIIA_65 |-> 32, LOBATTO_IIIC_65 |-> 33]

MethodNames == DOMAIN rk_methods

MethodIds == {rk_methods[nm] : nm \in MethodNames}

\* The cases above and below the "IMPLICIT METHODS:" line of the switch.
ExplicitIds ==
    {rk_methods.EXPLICIT_EULER, rk_methods.RUNGE_KUTTA_4,
     rk_methods.BOGACKI_SHAMPINE_32, rk_methods.CASH_KARP_54,
     rk_methods.DORMAND_PRINCE_54, rk_methods.FEHLBERG_54}

ImplicitIds == MethodIds \ ExplicitIds

\* The tables as built at start-up.
rk_string_to_method_0 == [nm \in MethodNames |-> rk_methods[nm]]

rk_method_to_string_0 ==
    [m \in MethodIds |-> CHOOSE nm \in MethodNames : rk_methods[nm] = m]

\* table[key] of an associative container: a key that is absent is inserted
\* with the value-initialised mapped value, which is returned.
Subscript(table, key, dflt) ==
    IF key \in DOMAIN table
    THEN [table |-> table, val |-> table[key]]
    ELSE [table |-> (key :> dflt) @@ table, val |-> dflt]

\* name_to_method answering RADAU_IIA_32, the method examples/brusselator.cpp
\* starts from, for a name that is absent.
name_to_method_fallback(table, name) ==
    Subscript(table, name, rk_methods.RADAU_IIA_32)

method_to_name(table, method) == Subscript(table, method, "")

name_to_method(table, name) == Subscript(table, name, 0)

-----------------------------------------------------------------------------
(* get_coefficients                                                        *)

\* What an int member of a default-constructed solver_coeffs may hold.
Indeterminate == {-1, 0, 1}

\* "solver_coeffs sc;": empty A, b, c, b2; order and order2 hold whatever
\* the storage held (u); FSAL, name and dt are assigned before the return.
solver_coeffs(u) ==
    [name |-> "", A |-> <<>>, b |-> <<>>, c |-> <<>>, b2 |-> <<>>,
     order |-> u[1], order2 |-> u[2], FSAL |-> FALSE, dt |-> I(0)]

\* The default label without its break: control falls into the case below.
default_case_fallthrough == [known |-> FALSE, set |-> case_EXPLICIT_EULER]

\* The default label: nothing is assigned to sc.
default_case == [known |-> FALSE, set |-> <<>>]

\* The switch: whether a case label matches, and the assignments of the case.
switch(method) ==
    LET m == rk_methods
        is(assignments) == [known |-> TRUE, set |-> assignments]
    IN  CASE method = m.EXPLICIT_EULER      -> is(case_EXPLICIT_EULER)
          [] method = m.RUNGE_KUTTA_4       -> is(case_RUNGE_KUTTA_4)
          [] method = m.BOGACKI_SHAMPINE_32 -> is(case_BOGACKI_SHAMPINE_32)
          [] method = m.CASH_KARP_54        -> is(case_CASH_KARP_54)
          [] method = m.DORMAND_PRINCE_54   -> is(case_DORMAND_PRINCE_54)
          [] method = m.FEHLBERG_54         -> is(case_FEHLBERG_54)
          [] method = m.IMPLICIT_EULER      -> is(case_IMPLICIT_EULER)
          [] method = m.IMPLICIT_MIDPOINT   -> is(case_IMPLICIT_MIDPOINT)
          [] method = m.LOBATTO_IIIA_21     -> is(case_LOBATTO_IIIA_21)
          [] method = m.LOBATTO_IIIC_21     -> is(case_LOBATTO_IIIC_21)
          [] method = m.RADAU_IA_32         -> is(case_RADAU_IA_32)
          [] method = m.RADAU_IIA_32        -> is(case_RADAU_IIA_32)
          [] method = m.LOBATTO_IIIA_43     -> is(case_LOBATTO_IIIA_43)
          [] method = m.LOBATTO_IIIC_43     -> is(case_LOBATTO_IIIC_43)
          [] method = m.GAUSS_LEGENDRE_42   -> is(case_GAUSS_LEGENDRE_42)
          [] method = m.RADAU_IA_54         -> is(case_RADAU_IA_54)
          [] method = m.RADAU_IIA_54        -> is(case_RADAU_IIA_54)
          [] method = m.GAUSS_LEGENDRE_63   -> is(case_GAUSS_LEGENDRE_63)
          [] method = m.LOBATTO_IIIA_65     -> is(case_LOBATTO_IIIA_65)
          [] method = m.LOBATTO_IIIC_65     -> is(case_LOBATTO_IIIC_65)
          [] OTHER -> default_case

\* s after the assignments of a case.
Assign(s, set) ==
    [f \in DOMAIN s |-> IF f \in DOMAIN set THEN set[f] ELSE s[f]]

\* si of the row-sum check: the sum of A(i,j) over j < c.size().
RECURSIVE RowSum(_, _, _)
RowSum(s, i, j) ==
    IF j = 0 THEN I(0) ELSE Add(RowSum(s, i, j - 1), At(s.A, i, j - 1))

\* Row i fails the row-sum check.
Mismatch(s, i) == ExceedsTol(Sub(RowSum(s, i, size(s.c)), s.c[i + 1]))

Msg(text, method, name, i) ==
    [text |-> text, method |-> method, name |-> name, i |-> i]

\* The rows i = 0 .. n-1 that fail the check, in order.
RECURSIVE MismatchWarnings(_, _, _)
MismatchWarnings(s, name, n) ==
    IF n = 0 THEN <<>>
    ELSE MismatchWarnings(s, name, n - 1)
           \o (IF Mismatch(s, n - 1)
               THEN <<Msg("Mismatch between c and A(i,:)", 0, name, n - 1)>>
               ELSE <<>>)

\* get_coefficients once the name nm = method_to_name(method) is looked up
\* and the switch has selected sw: the tableau returned and the text
\* written to std::cerr.
coefficients(method, u, nm, sw) ==
    LET s2  == Assign([solver_coeffs(u) EXCEPT !.FSAL = FALSE,
                                               !.name = nm.val], sw.set)
        out == <<Msg("Setting coeffs for method", 0, nm.val, 0)>>
                 \o (IF sw.known THEN <<>>
                     ELSE <<Msg("not supported", method, "", 0)>>)
                 \o MismatchWarnings(s2, nm.val, size(s2.c))
    IN  [sc |-> [s2 EXCEPT !.dt = R(1, 20)], cerr |-> out, table |-> nm.table]

\* get_coefficients(method) with the identifier-to-name table as it stands
\* and u in the storage of sc.order, sc.order2: the tableau returned, the
\* text written to std::cerr and the table afterwards.
get_coefficients(method, table, u) ==
    CHOOSE r \in {coefficients(method, u, nm, sw) :
                     nm \in {method_to_name(table, method)},
                     sw \in {switch(method)}} : TRUE

verify_solver_coeffs(s) ==
    LET N == size(s.b)
    IN  ~ (N # size(s.c) \/ N # n_rows(s.A) \/ N # n_cols(s.A))

-----------------------------------------------------------------------------
(* get_better_time_step                                                    *)

alpha(s) == s.order + s.order2

min_order(s) == IntMin(s.order, s.order2)

beta(s) == min_order(s)

\* frac1 with the quotient inverted.
frac1_inverted(tol, err) == Div(err, tol)

frac1(tol, err) == Div(tol, err)

frac2(old_err, tol) == Div(old_err, tol)

\* get_better_time_step without the clamp to max_dt.
get_better_time_step_unclamped(dt_old, err, old_err, tol, s, max_dt) ==
    Mul(Mul(dt_old, pow(frac1(tol, err), alpha(s))),
        pow(frac2(old_err, tol), beta(s)))

get_better_time_step(dt_old, err, old_err, tol, s, max_dt) ==
    LET dt_new == Mul(Mul(dt_old, pow(frac1(tol, err), alpha(s))),
                      pow(frac2(old_err, tol), beta(s)))
    IN  Min(dt_new, max_dt)

-----------------------------------------------------------------------------
(* The state machine: one action per library function, called by a client  *)
(* with any argument.                                                      *)

\* No tableau has been requested yet.
NoCoeffs == [name |-> "(none)"]

\* Identifiers a client passes: the catalogued ones and some that are not.
MethodArgs == MethodIds \cup (0..MaxUnknownId)

\* Names a client passes: the catalogued ones, the default name of
\* examples/brusselator.cpp and the empty string.
NameArgs == MethodNames \cup {"RADAU_IIA_53", ""}

Pow2(e) == IF e >= 0 THEN I(2 ^ e) ELSE R(1, 2 ^ (-e))

TolValues == {I(1), R(1, 2)}

\* dt_old below and above max_dt.
DtValues == {I(1), I(4)}

MaxDtValues == {I(2)}

\* err / tol: a step that passes and a step that is rejected.
ErrRatios == {R(1, 2), I(2)}

\* old_err / tol.
OldErrRatios == {Pow2(e) : e \in (-MaxErrExp)..MaxErrExp}

Init ==
    /\ rk_method_to_string = rk_method_to_string_0
    /\ rk_string_to_method = rk_string_to_method_0
    /\ sc = NoCoeffs
    /\ cerr = <<>>
    /\ ret = [op |-> "none"]

Call_get_coefficients ==
    \E method \in MethodArgs :
      \E u \in (IF method \in MethodIds THEN {<<0, 0>>}
                ELSE Indeterminate \X Indeterminate) :
        \E r \in {get_coefficients(method, rk_method_to_string, u)} :
            /\ sc' = r.sc
            /\ cerr' = r.cerr
            /\ rk_method_to_string' = r.table
            /\ ret' = [op |-> "get_coefficients", method |-> method]
            /\ UNCHANGED rk_string_to_method

Call_method_to_name ==
    \E method \in MethodArgs :
        LET r == method_to_name(rk_method_to_string, method)
        IN  /\ rk_method_to_string' = r.table
            /\ ret' = [op |-> "method_to_name", method |-> method,
                       val |-> r.val]
            /\ cerr' = <<>>
            /\ UNCHANGED <<rk_string_to_method, sc>>

Call_name_to_method ==
    \E name \in NameArgs :
        LET r == name_to_method(rk_string_to_method, name)
        IN  /\ rk_string_to_method' = r.table
            /\ ret' = [op |-> "name_to_method", name |-> name, val |-> r.val]
            /\ cerr' = <<>>
            /\ UNCHANGED <<rk_method_to_string, sc>>

Call_verify_solver_coeffs ==
    /\ sc # NoCoeffs
    /\ ret' = [op |-> "verify_solver_coeffs", val |-> verify_solver_coeffs(sc)]
    /\ cerr' = <<>>
    /\ UNCHANGED <<rk_method_to_string, rk_string_to_method, sc>>

Call_get_better_time_step ==
    /\ sc # NoCoeffs
    /\ \E tol \in TolValues, dt_old \in DtValues, max_dt \in MaxDtValues,
          e \in ErrRatios, oe \in OldErrRatios :
         LET err     == Mul(tol, e)
             old_err == Mul(tol, oe)
         IN  ret' = [op |-> "get_better_time_step", dt_old |-> dt_old,
                     err |-> err, old_err |-> old_err, tol |-> tol,
                     max_dt |-> max_dt,
                     val |-> get_better_time_step(dt_old, err, old_err, tol,
                                                  sc, max_dt)]
    /\ cerr' = <<>>
    /\ UNCHANGED <<rk_method_to_string, rk_string_to_method, sc>>

\* The tableau catalogue.
Next ==
    \/ Call_get_coefficients
    \/ Call_verify_solver_coeffs

Spec == Init /\ [][Next]_vars

\* The lookup tables.
NextLookup ==
    \/ Call_method_to_name
    \/ Call_name_to_method

SpecLookup == Init /\ [][NextLookup]_vars

\* The step-size controller, on a tableau that get_coefficients returned.
InitStep ==
    \E method \in MethodArgs :
      \E u \in (IF method \in MethodIds THEN {<<0, 0>>}
                ELSE Indeterminate \X Indeterminate) :
        \E r \in {get_coefficients(method, rk_method_to_string_0, u)} :
            /\ sc = r.sc
            /\ cerr = r.cerr
            /\ rk_method_to_string = r.table
            /\ rk_string_to_method = rk_string_to_method_0
            /\ ret = [op |-> "get_coefficients", method |-> method]

NextStep == Call_get_better_time_step

SpecStep == InitStep /\ [][NextStep]_vars

-----------------------------------------------------------------------------
(* Properties.                                                             *)

\* get_coefficients(m) has just returned into sc.
Returned(m) == ret.op = "get_coefficients" /\ ret.method = m

\* The controller has just run on a tableau of the catalogue.
Stepped == ret.op = "get_better_time_step" /\ sc.name \in MethodNames

Wrote(text) == \E k \in 1..Len(cerr) : cerr[k].text = text

\* C1: for every implicit method of the catalogue, every row i of the
\* tableau that get_coefficients returns has |sum_j A[i][j] - c[i]| <= 1e-5,
\* and get_coefficients writes no mismatch warning.
C1_ImplicitRowSums ==
    \A m \in ImplicitIds :
        Returned(m) =>
            /\ size(sc.c) = n_rows(sc.A)
            /\ \A i \in 0..(n_rows(sc.A) - 1) :
                   ~ ExceedsTol(Sub(RowSum(sc, i, n_cols(sc.A)), sc.c[i + 1]))
            /\ ~ Wrote("Mismatch between c and A(i,:)")

C1_Witness ==
    /\ Returned(rk_methods.RADAU_IIA_54)
    /\ n_rows(sc.A) = 3
    /\ sc.c[3] = I(1)
    /\ Len(cerr) = 1

\* C2: no call of name_to_method, method_to_name or get_coefficients
\* changes the two lookup tables.
C2_TablesReadOnly ==
    /\ rk_method_to_string = rk_method_to_string_0
    /\ rk_string_to_method = rk_string_to_method_0

\* C3: get_coefficients with an identifier outside the catalogue writes the
\* "not supported" warning and returns a tableau whose A, b and c are empty;
\* with a catalogued identifier it writes no such warning and b is not
\* empty, so the two are told apart.
C3_UnknownMethodSentinel ==
    ret.op = "get_coefficients" =>
        IF ret.method \notin MethodIds
        THEN /\ \E k \in 1..Len(cerr) :
                    cerr[k].text = "not supported" /\ cerr[k].method = ret.method
             /\ n_rows(sc.A) = 0 /\ n_cols(sc.A) = 0
             /\ size(sc.b) = 0 /\ size(sc.c) = 0
        ELSE /\ ~ Wrote("not supported")
             /\ size(sc.b) > 0

C3_Witness ==
    /\ Returned(0)
    /\ Wrote("not supported")
    /\ sc.A = <<>> /\ sc.b = <<>> /\ sc.c = <<>>

C5_ControllerExponents ==
    Stepped =>
        /\ ret.val = Min(Mul(Mul(ret.dt_old,
                                 pow(Div(ret.tol, ret.err), alpha(sc))),
                             pow(Div(ret.old_err, ret.tol), beta(sc))),
                         ret.max_dt)
        /\ alpha(sc) * (sc.order + sc.order2) = 1
        /\ beta(sc) * (sc.order + sc.order2) = IntMin(sc.order, sc.order2)

\* C6 as stated: after a rejected step (err > tol) the controller returns
\* dt_new < dt_old, whatever old_err and max_dt are.
C6_RejectedStepShrinks ==
    (Stepped /\ Less(ret.tol, ret.err)) => Less(ret.val, ret.dt_old)

\* C6 as amended: after a rejected step (err > tol) the controller returns
\* dt_new < dt_old provided old_err <= tol or the tableau has order2 = 0.
C6_RejectedStepShrinksAmended ==
    (/\ Stepped
     /\ Less(ret.tol, ret.err)
     /\ (Leq(ret.old_err, ret.tol) \/ sc.order2 = 0))
        => Less(ret.val, ret.dt_old)

C6_Witness ==
    /\ Stepped
    /\ Less(ret.tol, ret.err)
    /\ Less(ret.old_err, ret.tol)
    /\ sc.order2 > 0
    /\ Less(ret.val, ret.dt_old)

\* C7 as stated: after a step with err < tol the controller returns
\* dt_new <= max_dt and dt_new >= min(dt_old, max_dt), with dt_new > dt_old
\* whenever dt_old < max_dt, whatever old_err is.
C7_AcceptedStepGrows ==
    (Stepped /\ Less(ret.err, ret.tol)) =>
        /\ Leq(ret.val, ret.max_dt)
        /\ Leq(Min(ret.dt_old, ret.max_dt), ret.val)
        /\ Less(ret.dt_old, ret.max_dt) => Less(ret.dt_old, ret.val)

\* C7 as amended: after a step with err < tol the controller returns
\* dt_new <= max_dt; and, provided old_err >= tol or the tableau has
\* order2 = 0, dt_new >= min(dt_old, max_dt), with dt_new > dt_old whenever
\* dt_old < max_dt.
C7_AcceptedStepGrowsAmended ==
    (Stepped /\ Less(ret.err, ret.tol)) =>
        /\ Leq(ret.val, ret.max_dt)
        /\ (Leq(ret.tol, ret.old_err) \/ sc.order2 = 0) =>
              /\ Leq(Min(ret.dt_old, ret.max_dt), ret.val)
              /\ Less(ret.dt_old, ret.max_dt) => Less(ret.dt_old, ret.val)

C7_Witness ==
    /\ Stepped
    /\ Less(ret.err, ret.tol)
    /\ Less(ret.tol, ret.old_err)
    /\ sc.order2 > 0
    /\ Less(ret.dt_old, ret.max_dt)
    /\ Less(ret.dt_old, ret.val)
    /\ ret.val = ret.max_dt

\* C8: for every explicit method of the catalogue the matrix A that
\* get_coefficients returns is strictly lower triangular: A[i][j] = 0 for
\* every j >= i.
C8_ExplicitStrictlyLower ==
    \A m \in ExplicitIds :
        Returned(m) =>
            \A i \in 0..(n_rows(sc.A) - 1) :
                \A j \in i..(n_cols(sc.A) - 1) : At(sc.A, i, j) = I(0)

\* C9: every tableau that get_coefficients returns for a catalogued method
\* passes verify_solver_coeffs with a stage count n >= 1: A is n-by-n and b
\* and c have length n.
C9_DimensionallyConsistent ==
    \A m \in MethodIds :
        Returned(m) =>
            /\ verify_solver_coeffs(sc)
            /\ size(sc.b) >= 1
            /\ n_rows(sc.A) = size(sc.b) /\ n_cols(sc.A) = size(sc.b)
            /\ size(sc.c) = size(sc.b)

\* C10: for every catalogued method, order2 > 0 implies that b2 has the
\* length of b, order2 = 0 implies that b2 is empty, and order2 < order.
C10_EmbeddedWeights ==
    \A m \in MethodIds :
        Returned(m) =>
            /\ sc.order2 >= 0
            /\ sc.order2 > 0 => size(sc.b2) = size(sc.b)
            /\ sc.order2 = 0 => size(sc.b2) = 0
            /\ sc.order2 < sc.order

C10_Witness ==
    /\ Returned(rk_methods.GAUSS_LEGENDRE_42)
    /\ sc.order2 = 2
    /\ size(sc.b2) = 2
    /\ size(sc.b) = 2

=============================================================================
